---- MODULE Spec2Model ----
(***************************************************************************)
(* Model of the posting orchestrator of leads_generator.                   *)
(*                                                                         *)
(* Two implementations of post_generated_reddit_post live in the           *)
(* repository: app/services/reddit/posting_service.py (per-target loop,    *)
(* reply -> submission fallback, posted_url recorded) and                  *)
(* app/services/reddit_service.py (single target, no fallback, no          *)
(* posted_url).  A run of post() is modelled step by step; its position is *)
(* runs[r].pc and the steps are separated exactly where the code sleeps or *)
(* calls the platform.                                                     *)
(* The lead search of app/services/leads_service.py is modelled as the     *)
(* function it computes from the search graph's raw output to the leads    *)
(* table, applied in one step (SpecLeads).                                 *)
(***************************************************************************)
EXTENDS Integers, Sequences, FiniteSets, TLC

\* ------------------------------------------------------------------ bounds
MaxPosts == 2       \* rows of the reddit_posts table
MaxWrites == 2      \* successful platform writes in one behaviour
MaxItems == 3       \* elements of a list the lead search returns

\* ------------------------------------------------------- values of the model
None == "None"                       \* Python None for string columns
NoUrl == 0                           \* Python None for posted_url
Leads == {1}
\* kinds of original url: no 'comments' in it; '/comments/<id>/' in it;
\* the word 'comments' without the '/comments/' path segment
Urls == {"plain", "thread", "word"}
FetchSubs == {"s2"}
Slots == {1}                         \* post() invocations in flight

TEST_SUBREDDITS == <<"testingground4bots">>
\* the list iterated by the loop: the hard-coded test list, and a list of two
\* communities (the "subreddits from the database" of the comment at the
\* assignment) so that the loop's behaviour after its first target is visible
TargetLists == {TEST_SUBREDDITS, <<"testingground4bots", "s2">>}
Communities == UNION {{tl[j] : j \in DOMAIN tl} : tl \in TargetLists}

VARIABLES posts,     \* the reddit_posts table: sequence of rows, id = index
          runs,      \* per slot: the post() invocation running in it
          okWrites,  \* the platform: comments and submissions created so far
          leads,     \* the leads table: sequence of rows
          search     \* the perform_leads_search invocation

vars == <<posts, runs, okWrites, leads, search>>

\* -------------------------------------------------------------- persistence
NewPost(lead, url, sub) ==
    [lead_id |-> lead, url |-> url, subreddit |-> sub,
     generated_title |-> None, generated_content |-> None,
     ai_generated |-> FALSE, is_posted |-> FALSE, posted_url |-> NoUrl,
     posted_subs |-> {}]

NoPost == [lead_id |-> 0, url |-> "plain", subreddit |-> None,
           generated_title |-> None, generated_content |-> None,
           ai_generated |-> FALSE, is_posted |-> FALSE, posted_url |-> NoUrl,
           posted_subs |-> {}]

\* crud.get_reddit_post: the row, or None
get_reddit_post_by_id(tbl, post_id) ==
    IF post_id \in DOMAIN tbl THEN tbl[post_id] ELSE NoPost

\* a presence test that only rejects None
Truthy_NotNone(s) == s # None

\* Python truthiness of an optional string
Truthy(s) == s # None /\ s # ""

\* 'comments' in db_post.url
HasComments(url) == url \in {"thread", "word"}

\* db_post.url.split('/comments/')[1] exists
ParentResolvable(url) == url = "thread"

\* reddit_service.check_if_already_posted: a posted row of the lead whose own
\* subreddit column is the given name
check_if_already_posted(tbl, lead_id, subreddit_name) ==
    \E p \in DOMAIN tbl :
        /\ tbl[p].lead_id = lead_id
        /\ tbl[p].subreddit = subreddit_name
        /\ tbl[p].is_posted

\* guard used by posting_service: key (lead, generated_title, subreddit)
check_if_already_posted_to_subreddit(tbl, lead_id, generated_title, subreddit_name) ==
    \E p \in DOMAIN tbl :
        /\ tbl[p].lead_id = lead_id
        /\ tbl[p].generated_title = generated_title
        /\ tbl[p].is_posted
        /\ subreddit_name \in tbl[p].posted_subs

\* the update of a success built without the permalink
PostedUpdate_NoUrl(db_post, url) ==
    [generated_title |-> db_post.generated_title,
     generated_content |-> db_post.generated_content,
     ai_generated |-> db_post.ai_generated,
     is_posted |-> TRUE]

\* RedditPostUpdate built by posting_service for a success: the original and
\* generated columns of db_post, is_posted = True and the permalink
PostedUpdate(db_post, url) ==
    [generated_title |-> db_post.generated_title,
     generated_content |-> db_post.generated_content,
     ai_generated |-> db_post.ai_generated,
     is_posted |-> TRUE, posted_url |-> url]

\* RedditPostUpdate built by reddit_service for a success: no posted_url
PostedUpdateMono(db_post) ==
    [generated_title |-> db_post.generated_title,
     generated_content |-> db_post.generated_content,
     ai_generated |-> db_post.ai_generated,
     is_posted |-> TRUE]

\* crud.update_reddit_post: the fields set in the schema replace the row's
update_reddit_post(tbl, post_id, upd) ==
    [tbl EXCEPT ![post_id] =
        [f \in DOMAIN @ |-> IF f \in DOMAIN upd THEN upd[f] ELSE @[f]]]

\* mark_subreddit_as_posted: apply the update and record the community
mark_subreddit_as_posted(tbl, post_id, subreddit_name, upd) ==
    [update_reddit_post(tbl, post_id, upd) EXCEPT
        ![post_id].posted_subs = @ \cup {subreddit_name}]

\* ------------------------------------------------------------- account gate
\* account_service.check_account_health: risk signals are only logged
RiskSignals(karma, age_days, verified) ==
    (IF karma < 50 THEN {"low_karma"} ELSE {})
    \cup (IF age_days < 7 THEN {"new_account"} ELSE {})
    \cup (IF ~verified THEN {"unverified_email"} ELSE {})

\* a gate that refuses an account with a risk signal
check_account_health_Blocking(queryOk, karma, age_days, verified) ==
    queryOk /\ RiskSignals(karma, age_days, verified) = {}

check_account_health(queryOk, karma, age_days, verified) ==
    IF queryOk THEN TRUE ELSE FALSE

\* what reddit.user.me() can report: a risky account and a sound one
Accounts == {[karma |-> 49, age_days |-> 6, verified |-> FALSE],
             [karma |-> 50, age_days |-> 7, verified |-> TRUE]}

\* outcomes of get_reddit_instance() and of the account query
AnAccount == CHOOSE a \in Accounts : TRUE
Gates == {[auth |-> FALSE, query |-> FALSE, acct |-> AnAccount],
          [auth |-> TRUE, query |-> FALSE, acct |-> AnAccount]}
         \cup {[auth |-> TRUE, query |-> TRUE, acct |-> a] : a \in Accounts}

\* ------------------------------------------------------------------- runs
IdleRun == [pc |-> "idle", impl |-> "posting_service", post_id |-> 0,
            reddit |-> TRUE, healthy |-> TRUE,
            targets |-> <<>>, i |-> 0, db_post |-> NoPost,
            comment |-> NoUrl, submission |-> NoUrl,
            posted_successfully |-> FALSE, raised |-> FALSE, trace |-> <<>>]

\* one entry of a run's history: what happened, for which target (0: none),
\* and the permalink a successful write returned
Ev(e, t) == [e |-> e, t |-> t, link |-> NoUrl]

\* no lead search has been called
NoSearch == [pc |-> "idle"]

Init ==
    /\ posts = <<>>
    /\ runs = [r \in Slots |-> IdleRun]
    /\ okWrites = 0
    /\ leads = <<>>
    /\ search = NoSearch


\* ------------------------------------------------------------------ fetch
\* db_operations_service._save_reddit_posts: a fetched post is created unless
\* a row of the lead with the same url exists
RECURSIVE save_reddit_posts(_, _, _, _)
save_reddit_posts(tbl, lead_id, sub, batch) ==
    IF batch = <<>> THEN tbl
    ELSE LET url == Head(batch)
             dup == \E p \in DOMAIN tbl :
                        tbl[p].lead_id = lead_id /\ tbl[p].url = url
         IN save_reddit_posts(
                IF dup THEN tbl ELSE Append(tbl, NewPost(lead_id, url, sub)),
                lead_id, sub, Tail(batch))

\* reddit_service.perform_reddit_analysis: every fetched post is created
RECURSIVE create_reddit_posts(_, _, _, _)
create_reddit_posts(tbl, lead_id, sub, batch) ==
    IF batch = <<>> THEN tbl
    ELSE create_reddit_posts(Append(tbl, NewPost(lead_id, Head(batch), sub)),
                             lead_id, sub, Tail(batch))

Batches == {<<u>> : u \in Urls} \cup {<<u, v>> : u \in Urls, v \in Urls}

FetchAndSave(lead, sub, batch) ==
    /\ Len(posts) + Len(batch) <= MaxPosts
    /\ posts' = save_reddit_posts(posts, lead, sub, batch)
    /\ UNCHANGED <<runs, okWrites, leads, search>>

\* the scored posts the analysis hands back: the lead's posts as they were
\* sent, with the fields of the fetched post
ScoredPosts(tbl, lead_id) ==
    LET mine == SelectSeq(tbl, LAMBDA row : row.lead_id = lead_id)
    IN [j \in DOMAIN mine |->
           [url |-> mine[j].url, subreddit |-> mine[j].subreddit]]

\* reddit_service.perform_reddit_analysis, scoring: the first row of the lead
\* with the scored post's url is updated with the scored post's fields
RECURSIVE score_reddit_posts(_, _, _)
score_reddit_posts(tbl, lead_id, scored) ==
    IF scored = <<>> THEN tbl
    ELSE LET sp == Head(scored)
             hits == {p \in DOMAIN tbl :
                         tbl[p].lead_id = lead_id /\ tbl[p].url = sp.url}
             first == CHOOSE p \in hits : \A q \in hits : p <= q
         IN score_reddit_posts(
                IF hits = {} THEN tbl
                ELSE update_reddit_post(tbl, first,
                         [url |-> sp.url, subreddit |-> sp.subreddit]),
                lead_id, Tail(scored))

AnalysisSave(lead, sub, batch) ==
    /\ Len(posts) + Len(batch) <= MaxPosts
    /\ posts' = LET created == create_reddit_posts(posts, lead, sub, batch)
                IN score_reddit_posts(created, lead, ScoredPosts(created, lead))
    /\ UNCHANGED <<runs, okWrites, leads, search>>

\* ------------------------------------------------------------- generation
\* what document_scraper_graph.run() can hand back
GenResponses ==
    {[kind |-> "empty"], [kind |-> "raise"], [kind |-> "invalid"]}
    \cup {[kind |-> "valid", title |-> "T1", content |-> "C1"],
          [kind |-> "valid", title |-> "T2", content |-> "C1"],
          [kind |-> "valid", title |-> "T1", content |-> ""]}

\* schemas.GeneratedPostContent(**raw): title and content are strings
ValidatesGeneratedPostContent(resp) == resp.kind = "valid"

\* a generation whose update carries is_posted = False
generate_reddit_posts_Resetting(tbl, saasFound, post_id, resp) ==
    IF ~saasFound THEN tbl
    ELSE IF post_id \notin DOMAIN tbl THEN tbl
    ELSE IF resp.kind = "raise" THEN tbl
    ELSE IF resp.kind = "empty" THEN tbl
    ELSE IF ~ValidatesGeneratedPostContent(resp) THEN tbl
    ELSE update_reddit_post(tbl, post_id,
            [generated_title |-> resp.title,
             generated_content |-> resp.content,
             ai_generated |-> TRUE, is_posted |-> FALSE])

\* a generation whose update sets the flag and the title but not the content
generate_reddit_posts_FlagFirst(tbl, saasFound, post_id, resp) ==
    IF ~saasFound THEN tbl
    ELSE IF post_id \notin DOMAIN tbl THEN tbl
    ELSE IF resp.kind = "raise" THEN tbl
    ELSE IF resp.kind = "empty" THEN tbl
    ELSE IF ~ValidatesGeneratedPostContent(resp) THEN tbl
    ELSE update_reddit_post(tbl, post_id,
            [generated_title |-> resp.title, ai_generated |-> TRUE])

\* generation_service.generate_reddit_posts: one update on a validated response
generate_reddit_posts(tbl, saasFound, post_id, resp) ==
    IF ~saasFound THEN tbl
    ELSE IF post_id \notin DOMAIN tbl THEN tbl
    ELSE IF resp.kind = "raise" THEN tbl
    ELSE IF resp.kind = "empty" THEN tbl
    ELSE IF ~ValidatesGeneratedPostContent(resp) THEN tbl
    ELSE update_reddit_post(tbl, post_id,
            [generated_title |-> resp.title,
             generated_content |-> resp.content,
             ai_generated |-> TRUE])

Generate(saasFound, post_id, resp) ==
    /\ posts' = generate_reddit_posts(posts, saasFound, post_id, resp)
    /\ UNCHANGED <<runs, okWrites, leads, search>>

\* the platform gives every new comment or submission its own permalink
NewLink == okWrites + 1

\* ------------------------------------------------------------ post(): entry
SetRun(r, run) == runs' = [runs EXCEPT ![r] = run]

Done(run, ev) == [run EXCEPT !.pc = "done", !.trace = Append(@, ev)]

FreshRun(r, impl, post_id, authOk, healthy) ==
    [runs[r] EXCEPT !.impl = impl, !.post_id = post_id,
                    !.reddit = authOk, !.healthy = authOk => healthy,
                    !.db_post = get_reddit_post_by_id(posts, post_id)]

\* the entry checks without the is_posted test
Abort_NoPostedCheck(authOk, healthy, post_id, db_post) ==
    IF ~authOk THEN "auth_fail"
    ELSE IF ~healthy THEN "health_fail"
    ELSE IF post_id \notin DOMAIN posts THEN "not_found"
    ELSE IF ~Truthy(db_post.generated_title)
            \/ ~Truthy(db_post.generated_content) THEN "no_content"
    ELSE IF ~db_post.ai_generated THEN "not_ai"
    ELSE ""

\* the entry checks without the account health test
Abort_NoHealthCheck(authOk, healthy, post_id, db_post) ==
    IF ~authOk THEN "auth_fail"
    ELSE IF post_id \notin DOMAIN posts THEN "not_found"
    ELSE IF ~Truthy(db_post.generated_title)
            \/ ~Truthy(db_post.generated_content) THEN "no_content"
    ELSE IF ~db_post.ai_generated THEN "not_ai"
    ELSE IF db_post.is_posted THEN "already_posted"
    ELSE ""

\* which early return of the entry checks is taken, "" when none
Abort(authOk, healthy, post_id, db_post) ==
    IF ~authOk THEN "auth_fail"
    ELSE IF ~healthy THEN "health_fail"
    ELSE IF post_id \notin DOMAIN posts THEN "not_found"
    ELSE IF ~Truthy(db_post.generated_title)
            \/ ~Truthy(db_post.generated_content) THEN "no_content"
    ELSE IF ~db_post.ai_generated THEN "not_ai"
    ELSE IF db_post.is_posted THEN "already_posted"
    ELSE ""

\* an entry that takes a Post with a posted_url through the loop like any other
BeginPost_NoRepair(r, post_id, targets, authOk, queryOk, acct) ==
    LET healthy == check_account_health(queryOk, acct.karma, acct.age_days,
                                        acct.verified)
        run == FreshRun(r, "posting_service", post_id, authOk, healthy)
        db_post == run.db_post
        abort == Abort(authOk, healthy, post_id, db_post)
    IN
    /\ runs[r].pc = "idle"
    /\ okWrites + Len(targets) <= MaxWrites
    /\ UNCHANGED <<okWrites, leads, search, posts>>
    /\ IF abort # ""
       THEN SetRun(r, Done(run, Ev(abort, 0)))
       ELSE SetRun(r, [run EXCEPT !.pc = "guard", !.i = 1,
                                  !.targets = targets])

\* posting_service.post_generated_reddit_post up to the loop
BeginPost(r, post_id, targets, authOk, queryOk, acct) ==
    LET healthy == check_account_health(queryOk, acct.karma, acct.age_days,
                                        acct.verified)
        run == FreshRun(r, "posting_service", post_id, authOk, healthy)
        db_post == run.db_post
        abort == Abort(authOk, healthy, post_id, db_post)
    IN
    /\ runs[r].pc = "idle"
    /\ okWrites + Len(targets) <= MaxWrites
    /\ UNCHANGED <<okWrites, leads, search>>
    /\ IF abort # ""
       THEN /\ SetRun(r, Done(run, Ev(abort, 0)))
            /\ UNCHANGED posts
       ELSE IF db_post.posted_url # NoUrl /\ ~db_post.is_posted
       THEN \* repair path: a posted_url exists, only the flag is missing
            \/ /\ posts' = mark_subreddit_as_posted(posts, post_id,
                                 db_post.subreddit,
                                 PostedUpdate(db_post, db_post.posted_url))
               /\ SetRun(r, Done(run, Ev("repaired", 0)))
            \/ \* the update raises: nothing catches it
               /\ UNCHANGED posts
               /\ SetRun(r, [Done(run, Ev("repair_err", 0))
                                EXCEPT !.raised = TRUE])
       ELSE \* target_subreddits is assigned, the loop starts
            /\ SetRun(r, [run EXCEPT !.pc = "guard", !.i = 1,
                                     !.targets = targets])
            /\ UNCHANGED posts

\* reddit_service.post_generated_reddit_post up to its first sleep
BeginPostMono(r, post_id, authOk, queryOk, acct) ==
    LET healthy == check_account_health(queryOk, acct.karma, acct.age_days,
                                        acct.verified)
        run == FreshRun(r, "reddit_service", post_id, authOk, healthy)
        db_post == run.db_post
        abort == Abort(authOk, healthy, post_id, db_post)
    IN
    /\ runs[r].pc = "idle"
    /\ okWrites + Len(TEST_SUBREDDITS) <= MaxWrites
    /\ UNCHANGED <<okWrites, posts, leads, search>>
    /\ IF abort # ""
       THEN SetRun(r, Done(run, Ev(abort, 0)))
       ELSE \/ \* the guard's query raises: nothing catches it
               SetRun(r, [Done(run, Ev("guard_err", 1)) EXCEPT !.raised = TRUE])
            \/ IF check_if_already_posted(posts, db_post.lead_id,
                                          db_post.subreddit)
               THEN SetRun(r, Done(run, Ev("guard_skip", 1)))
               ELSE SetRun(r, [run EXCEPT !.pc = "pre_delay", !.i = 1,
                                  !.targets = TEST_SUBREDDITS,
                                  !.trace = Append(@, Ev("guard_pass", 1))])


\* ------------------------------------------------------- post(): the targets
Target(run) == run.targets[run.i]

Log(run, e) == [run EXCEPT !.trace = Append(@, Ev(e, run.i))]

LogWrite(run, e, link) ==
    [run EXCEPT !.trace = Append(@, [e |-> e, t |-> run.i, link |-> link])]

\* end of one iteration of the loop; after the last one the function logs,
\* closes the session and returns
NextTarget(run) ==
    IF run.i < Len(run.targets)
    THEN [run EXCEPT !.pc = "guard", !.i = @ + 1,
                     !.comment = NoUrl, !.submission = NoUrl]
    ELSE [run EXCEPT !.pc = "done", !.trace = Append(@, Ev("close", 0))]

\* an except clause that logs and raises again: the invocation ends
Caught_Reraised(run, e) ==
    [Done(Log(run, e), Ev("raise", 0)) EXCEPT !.raised = TRUE]

\* an except clause that starts the same target again
Caught_Retried(run, e) == [Log(run, e) EXCEPT !.pc = "guard"]

\* the except clause around one attempt
Caught(run, e) == NextTarget(Log(run, e))

\* posting_service: duplicate guard at the top of the loop body
GuardCheck(r, dbOk) ==
    LET run == runs[r] IN
    /\ run.pc = "guard"
    /\ UNCHANGED <<posts, okWrites, leads, search>>
    /\ IF ~dbOk
       THEN \* the query raises outside the try: the invocation ends
            SetRun(r, [Done(Log(run, "guard_err"), Ev("raise", 0))
                          EXCEPT !.raised = TRUE])
       ELSE IF check_if_already_posted_to_subreddit(posts, run.db_post.lead_id,
                    run.db_post.generated_title, Target(run))
       THEN SetRun(r, NextTarget(Log(run, "guard_skip")))
       ELSE SetRun(r, [Log(run, "guard_pass") EXCEPT !.pc = "pre_delay"])

\* the delay followed by a submission whatever the url
PreDelay_AlwaysSubmit(r) ==
    LET run == runs[r] IN
    /\ run.pc = "pre_delay"
    /\ UNCHANGED <<posts, okWrites, leads, search>>
    /\ SetRun(r, [Log(run, "pre_delay") EXCEPT !.pc = "submit"])

\* the attempt started without the sleep
PreDelay_Skipped(r) ==
    LET run == runs[r] IN
    /\ run.pc = "pre_delay"
    /\ UNCHANGED <<posts, okWrites, leads, search>>
    /\ SetRun(r, [run EXCEPT
                     !.pc = IF HasComments(run.db_post.url)
                            THEN "reply" ELSE "submit"])

\* time.sleep(delay) before the attempt
PreDelay(r) ==
    LET run == runs[r] IN
    /\ run.pc = "pre_delay"
    /\ UNCHANGED <<posts, okWrites, leads, search>>
    /\ SetRun(r, [Log(run, "pre_delay") EXCEPT
                     !.pc = IF HasComments(run.db_post.url)
                            THEN "reply" ELSE "submit"])

\* the platform after a successful write
Written(run) == okWrites + 1

\* reply branch: resolve the parent, short sleep, submission.reply(content)
Reply(r, ok) ==
    LET run == runs[r] IN
    /\ run.pc = "reply"
    /\ UNCHANGED <<posts, leads, search>>
    /\ IF ~ParentResolvable(run.db_post.url)
       THEN \* split('/comments/')[1] raises IndexError: no call is made
            /\ UNCHANGED okWrites
            /\ IF run.impl = "posting_service"
               THEN SetRun(r, [Log(run, "resolve_fail") EXCEPT !.pc = "submit"])
               ELSE SetRun(r, Caught(Log(run, "resolve_fail"), "failed"))
       ELSE IF ok
       THEN /\ okWrites' = Written(run)
            /\ SetRun(r, [LogWrite(run, "reply_ok", NewLink) EXCEPT
                             !.pc = "post_delay", !.comment = NewLink])
       ELSE /\ UNCHANGED okWrites
            /\ IF run.impl = "posting_service"
               THEN SetRun(r, [Log(run, "reply_fail") EXCEPT !.pc = "submit"])
               ELSE \* reddit_service re-raises: no submission is tried
                    SetRun(r, Caught(Log(run, "reply_fail"), "failed"))

\* Submit with the failure of the call swallowed instead of raised
Submit_Swallowed(r, ok) ==
    LET run == runs[r] IN
    /\ run.pc = "submit"
    /\ UNCHANGED <<posts, leads, search>>
    /\ IF ok
       THEN /\ okWrites' = Written(run)
            /\ SetRun(r, [LogWrite(run, "submit_ok", NewLink) EXCEPT
                             !.pc = "post_delay", !.submission = NewLink])
       ELSE /\ UNCHANGED okWrites
            /\ SetRun(r, [Log(run, "submit_fail") EXCEPT !.pc = "post_delay"])

\* a submission that is made only while the Post is not recorded as posted
Submit_Rechecked(r, ok) ==
    LET run == runs[r] IN
    /\ run.pc = "submit"
    /\ ~posts[run.post_id].is_posted
    /\ UNCHANGED <<posts, leads, search>>
    /\ IF ok
       THEN /\ okWrites' = Written(run)
            /\ SetRun(r, [LogWrite(run, "submit_ok", NewLink) EXCEPT
                             !.pc = "post_delay", !.submission = NewLink])
       ELSE /\ UNCHANGED okWrites
            /\ SetRun(r, Caught(Log(run, "submit_fail"), "failed"))

\* subreddit.submit(generated_title, selftext=generated_content)
Submit(r, ok) ==
    LET run == runs[r] IN
    /\ run.pc = "submit"
    /\ UNCHANGED <<posts, leads, search>>
    /\ IF ok
       THEN /\ okWrites' = Written(run)
            /\ SetRun(r, [LogWrite(run, "submit_ok", NewLink) EXCEPT
                             !.pc = "post_delay", !.submission = NewLink])
       ELSE /\ UNCHANGED okWrites
            /\ SetRun(r, Caught(Log(run, "submit_fail"), "failed"))

\* time.sleep(random.uniform(10, 20)) after the write
PostDelay(r) ==
    LET run == runs[r] IN
    /\ run.pc = "post_delay"
    /\ UNCHANGED <<posts, okWrites, leads, search>>
    /\ SetRun(r, [Log(run, "post_delay") EXCEPT !.pc = "persist"])

\* permalink recorded by posting_service: the comment's if there is one
Permalink(run) ==
    IF run.comment # NoUrl THEN run.comment ELSE run.submission

\* a recording whose failure leaves is_posted written
Persist_DirtyOnFail(r, dbOk) ==
    LET run == runs[r] IN
    /\ run.pc = "persist"
    /\ UNCHANGED <<okWrites, leads, search>>
    /\ IF ~dbOk
       THEN /\ posts' = update_reddit_post(posts, run.post_id,
                            [is_posted |-> TRUE])
            /\ SetRun(r, Caught(Log(run, "persist_fail"), "failed"))
       ELSE IF run.impl = "posting_service"
       THEN /\ posts' = mark_subreddit_as_posted(posts, run.post_id, Target(run),
                            PostedUpdate(run.db_post, Permalink(run)))
            /\ SetRun(r, NextTarget(
                   [Log(run, "persist_ok") EXCEPT
                       !.posted_successfully = TRUE,
                       !.db_post = posts'[run.post_id]]))
       ELSE /\ posts' = update_reddit_post(posts, run.post_id,
                            PostedUpdateMono(run.db_post))
            /\ SetRun(r, NextTarget(
                   [Log(run, "persist_ok") EXCEPT
                       !.posted_successfully = TRUE,
                       !.db_post = posts'[run.post_id]]))

\* record the outcome of a successful write
Persist(r, dbOk) ==
    LET run == runs[r] IN
    /\ run.pc = "persist"
    /\ UNCHANGED <<okWrites, leads, search>>
    /\ IF ~dbOk
       THEN /\ UNCHANGED posts
            /\ SetRun(r, Caught(Log(run, "persist_fail"), "failed"))
       ELSE IF run.impl = "posting_service"
       THEN /\ posts' = mark_subreddit_as_posted(posts, run.post_id, Target(run),
                            PostedUpdate(run.db_post, Permalink(run)))
            /\ SetRun(r, NextTarget(
                   [Log(run, "persist_ok") EXCEPT
                       !.posted_successfully = TRUE,
                       !.db_post = posts'[run.post_id]]))
       ELSE /\ posts' = update_reddit_post(posts, run.post_id,
                            PostedUpdateMono(run.db_post))
            /\ SetRun(r, NextTarget(
                   [Log(run, "persist_ok") EXCEPT
                       !.posted_successfully = TRUE,
                       !.db_post = posts'[run.post_id]]))

\* ------------------------------------------------------------ specification
\* the handlers other than post().  post_generated_reddit_post is a coroutine
\* without a single await (its delays are time.sleep), so on the event loop
\* no other handler runs between its first statement and its return
Environment ==
    /\ \A r \in DOMAIN runs : runs[r].pc = "idle"
    /\
       \/ \E l \in Leads, s \in FetchSubs, b \in Batches : FetchAndSave(l, s, b)
       \/ \E l \in Leads, s \in FetchSubs, b \in Batches : AnalysisSave(l, s, b)
       \/ \E p \in 1..MaxPosts, g \in GenResponses : Generate(TRUE, p, g)
       \/ \E p \in 1..MaxPosts : Generate(FALSE, p, [kind |-> "empty"])

Begin(r) ==
    \E p \in 1..(MaxPosts + 1), g \in Gates :
        \/ \E tl \in TargetLists : BeginPost(r, p, tl, g.auth, g.query, g.acct)
        \/ BeginPostMono(r, p, g.auth, g.query, g.acct)

Step(r) ==
    \/ \E d \in BOOLEAN : GuardCheck(r, d)
    \/ PreDelay(r)
    \/ \E ok \in BOOLEAN : Reply(r, ok)
    \/ \E ok \in BOOLEAN : Submit(r, ok)
    \/ PostDelay(r)
    \/ \E d \in BOOLEAN : Persist(r, d)

\* what the caller of post_generated_reddit_post receives: every return
\* statement is bare and the function body ends without one
ReturnValue(run) == None

\* the invocation returns to its caller
Return(r) ==
    /\ runs[r].pc = "done"
    /\ SetRun(r, IdleRun)
    /\ UNCHANGED <<posts, okWrites, leads, search>>

\* post() runs one at a time (single-flight)
Next ==
    \/ Environment
    \/ Begin(1)
    \/ Step(1)
    \/ Return(1)

Spec == Init /\ [][Next]_vars

\* ------------------------------------------- invocations on two workers
\* The same handlers served by two workers on one database: two post()
\* invocations interleave at their sleeps and calls.  Single-flight per Post
\* id is kept: a Post is taken up by one invocation at a time.
Workers == {1, 2}

InitWorkers ==
    /\ posts = <<>>
    /\ runs = [r \in Workers |-> IdleRun]
    /\ okWrites = 0
    /\ leads = <<>>
    /\ search = NoSearch

\* post ids other workers are busy with
InFlight(r) == {runs[q].post_id : q \in {w \in Workers \ {r} : runs[w].pc # "idle"}}

BeginOnWorker(r) ==
    \E p \in 1..MaxPosts :
        /\ p \notin InFlight(r)
        /\ okWrites + Cardinality(InFlight(r)) < MaxWrites
        /\ \/ BeginPost(r, p, TEST_SUBREDDITS, TRUE, TRUE, AnAccount)
           \/ BeginPostMono(r, p, TRUE, TRUE, AnAccount)

NextWorkers ==
    \/ Environment
    \/ \E r \in Workers : BeginOnWorker(r)
    \/ \E r \in Workers : Step(r)
    \/ \E r \in Workers : Return(r)

SpecWorkers == InitWorkers /\ [][NextWorkers]_vars

\* ------------------------------------------------------------ cancellation
\* The invocation is interrupted while it sleeps, waits for the platform or
\* is about to record: the interrupt is not an Exception, no except clause
\* of post() catches it, and the invocation ends where it stands.
SuspensionPoints == {"pre_delay", "reply", "submit", "post_delay", "persist"}

Cancel(r) ==
    /\ runs[r].pc \in SuspensionPoints
    /\ SetRun(r, [Done(Log(runs[r], "cancelled"), Ev("raise", 0))
                     EXCEPT !.raised = TRUE])
    /\ UNCHANGED <<posts, okWrites, leads, search>>

\* entries of post() that pass the gate
BeginReachable(r) ==
    \E p \in 1..MaxPosts :
        \/ \E tl \in TargetLists : BeginPost(r, p, tl, TRUE, TRUE, AnAccount)
        \/ BeginPostMono(r, p, TRUE, TRUE, AnAccount)

NextCancel ==
    \/ Environment
    \/ BeginReachable(1)
    \/ Step(1)
    \/ Cancel(1)
    \/ Return(1)

SpecCancel == Init /\ [][NextCancel]_vars

\* ------------------------------------------------- the gate on its inputs
\* post() entered with each report the account query can give, on a table
\* that holds one generated, unposted Post; the report stays with the run
Karmas == {0, 49, 50, 51}
AgesInDays == {0, 6, 7, 8}
UserReports ==
    [queryOk : BOOLEAN, karma : Karmas, age_days : AgesInDays,
     verified : BOOLEAN]

PostableTable ==
    generate_reddit_posts(
        save_reddit_posts(<<>>, 1, "s2", <<"thread">>), TRUE, 1,
        [kind |-> "valid", title |-> "T1", content |-> "C1"])

InitGate ==
    /\ posts = PostableTable
    /\ okWrites = 0
    /\ leads = <<>>
    /\ search = NoSearch
    /\ \E u \in UserReports :
           runs = [r \in Slots |-> IdleRun @@ [user |-> u]]

BeginWithReport(r) ==
    LET u == runs[r].user IN
    \/ BeginPost(r, 1, TEST_SUBREDDITS, TRUE, u.queryOk, u)
    \/ BeginPostMono(r, 1, TRUE, u.queryOk, u)

NextGate == BeginWithReport(1) \/ Step(1)

SpecGate == InitGate /\ [][NextGate]_vars


\* ------------------------------------------------------- the lead search
\* leads_service.perform_leads_search: the raw output of the search graph is
\* decoded, normalised into a list of candidates, and each candidate is
\* validated and created as a Lead.
\*
\* JSON values.  A field value is a record of strings: its type t, its
\* content v, and, for a string, what the string decodes to as JSON text
\* (enc = "bad": it is not JSON text).
JNull == [t |-> "null", enc |-> "-", v |-> "-"]
JList(v) == [t |-> "list", enc |-> "-", v |-> v]
JStr(v) == [t |-> "str", enc |-> "bad", v |-> v]
\* json.dumps of a field value
json_dumps(val) == [t |-> "str", enc |-> val.t, v |-> val.v]

\* json.loads of a field value that is a string
json_loads(s) ==
    IF s.enc = "bad" THEN [ok |-> FALSE, value |-> JNull]
    ELSE [ok |-> TRUE, value |-> [t |-> s.enc, enc |-> "-", v |-> s.v]]

Absent == [t |-> "absent", enc |-> "-", v |-> "-"]

\* a dict: a function from its keys to field values
MkDict(name, subs, extra) ==
    [k \in ((IF name = Absent THEN {} ELSE {"competitor_name"})
            \cup (IF subs = Absent THEN {} ELSE {"related_subreddits"})
            \cup extra)
        |-> IF k = "competitor_name" THEN name
            ELSE IF k = "related_subreddits" THEN subs
            ELSE JList("example.com")]
EmptyDict == MkDict(Absent, Absent, {})

\* an element of a list: a dict, or anything else
DictItem(d) == [t |-> "dict", d |-> d]
ScalarItem == [t |-> "scalar", d |-> EmptyDict]

SubsList == JList("saas,startups")
\* the dicts a search returns: complete ones, one per delivery of
\* related_subreddits (a list, the JSON text of a list, a string that is not
\* JSON text, null), ones that lack a required field, and ones with a key
\* outside the schema
CandidateDicts ==
    {MkDict(JStr("Acme"), s, {}) :
        s \in {SubsList, json_dumps(SubsList), JStr("r/saas"), JNull}}
    \cup {MkDict(JStr("Beta"), SubsList, {})}
    \cup {MkDict(Absent, SubsList, {}), MkDict(JStr("Acme"), Absent, {})}
    \cup {MkDict(JStr("Acme"), SubsList, x) : x \in {{"sources"}, {"note"}}}
Items == {DictItem(d) : d \in CandidateDicts} \cup {ScalarItem}

\* a decoded value: a dict (its candidate keys d; whether it has the key
\* 'leads', and that key's value w), a list, or anything else
NoWrapper == [t |-> "null", items |-> <<>>]
DictValue(d, wrapped, w) ==
    [t |-> "dict", d |-> d, wrapped |-> wrapped, w |-> w, items |-> <<>>]
ListValue(items) ==
    [t |-> "list", d |-> EmptyDict, wrapped |-> FALSE, w |-> NoWrapper,
     items |-> items]
ScalarValue ==
    [t |-> "scalar", d |-> EmptyDict, wrapped |-> FALSE, w |-> NoWrapper,
     items |-> <<>>]
Wrapper(items) == DictValue(EmptyDict, TRUE, [t |-> "list", items |-> items])

\* the decoded values built on a list of elements: the bare array, the
\* wrapper around it, a wrapper that also carries the required fields, the
\* single object, a wrapper whose value is null, and a value that is
\* neither object nor array
DecodedValues(items) ==
    {ListValue(items), Wrapper(items)}
    \cup (IF Len(items) <= 1
          THEN {DictValue(MkDict(JStr("Beta"), SubsList, {}), TRUE,
                          [t |-> "list", items |-> items])}
          ELSE {})
    \cup (IF Len(items) = 1 /\ items[1].t = "dict"
          THEN {DictValue(items[1].d, FALSE, NoWrapper)}
          ELSE {})
    \cup (IF Len(items) = 0
          THEN {DictValue(EmptyDict, TRUE, NoWrapper), ScalarValue}
          ELSE {})

\* what search_graph.run() returns: a value, or a string that is the JSON
\* text of a value, or a string that is not JSON text
Decoded(value) == [str |-> FALSE, parses |-> TRUE, value |-> value]
JsonText(value) == [str |-> TRUE, parses |-> TRUE, value |-> value]
NotJson == [str |-> TRUE, parses |-> FALSE, value |-> ScalarValue]
\* search_graph.run() raises instead of returning
RunRaises == [str |-> FALSE, parses |-> FALSE, value |-> ScalarValue]
RawOutputs(items) ==
    {Decoded(v) : v \in DecodedValues(items)}
    \cup {JsonText(v) : v \in DecodedValues(items)}
    \cup (IF Len(items) = 0 THEN {NotJson, RunRaises} ELSE {})

\* a decoding step that gives up on every string
DecodeRaw_StringsRejected(raw_output) ==
    IF raw_output.str
    THEN [ret |-> TRUE, processed_result |-> ScalarValue]
    ELSE [ret |-> FALSE, processed_result |-> raw_output.value]

\* lines 75-86: a string is decoded, anything else is used as it is
DecodeRaw(raw_output) ==
    IF raw_output.str
    THEN IF raw_output.parses
         THEN [ret |-> FALSE, processed_result |-> raw_output.value]
         ELSE [ret |-> TRUE, processed_result |-> ScalarValue]
    ELSE [ret |-> FALSE, processed_result |-> raw_output.value]

\* a resolution that tries the single record before the wrapper
ResolveShape_SingleFirst(processed_result) ==
    IF processed_result.t = "dict"
    THEN IF {"competitor_name", "related_subreddits"}
                \subseteq DOMAIN processed_result.d
         THEN [ret |-> FALSE,
               leads_to_process |->
                   [t |-> "list",
                    items |-> <<DictItem(processed_result.d)>>]]
         ELSE IF processed_result.wrapped
         THEN [ret |-> FALSE, leads_to_process |-> processed_result.w]
         ELSE [ret |-> TRUE, leads_to_process |-> NoWrapper]
    ELSE IF processed_result.t = "list"
    THEN IF Len(processed_result.items) > 0
         THEN IF processed_result.items[1].t = "dict"
              THEN [ret |-> FALSE,
                    leads_to_process |->
                        [t |-> "list", items |-> processed_result.items]]
              ELSE [ret |-> TRUE, leads_to_process |-> NoWrapper]
         ELSE [ret |-> TRUE, leads_to_process |-> NoWrapper]
    ELSE [ret |-> TRUE, leads_to_process |-> NoWrapper]

\* lines 97-127: the list of candidates, or a return
ResolveShape(processed_result) ==
    IF processed_result.t = "dict"
    THEN IF processed_result.wrapped
         THEN [ret |-> FALSE, leads_to_process |-> processed_result.w]
         ELSE IF {"competitor_name", "related_subreddits"}
                    \subseteq DOMAIN processed_result.d
         THEN [ret |-> FALSE,
               leads_to_process |->
                   [t |-> "list",
                    items |-> <<DictItem(processed_result.d)>>]]
         ELSE [ret |-> TRUE, leads_to_process |-> NoWrapper]
    ELSE IF processed_result.t = "list"
    THEN IF Len(processed_result.items) > 0
         THEN IF processed_result.items[1].t = "dict"
              THEN [ret |-> FALSE,
                    leads_to_process |->
                        [t |-> "list", items |-> processed_result.items]]
              ELSE [ret |-> TRUE, leads_to_process |-> NoWrapper]
         ELSE [ret |-> TRUE, leads_to_process |-> NoWrapper]
    ELSE [ret |-> TRUE, leads_to_process |-> NoWrapper]

\* schemas.LeadCreate(**lead_data): the fields of the schema, or a
\* validation error
LeadCreate(lead_data) ==
    IF /\ lead_data["competitor_name"].t = "str"
       /\ lead_data["related_subreddits"].t = "list"
    THEN [ok |-> TRUE,
          lead |-> [competitor_name |-> lead_data["competitor_name"].v,
                    related_subreddits |-> lead_data["related_subreddits"].v]]
    ELSE [ok |-> FALSE,
          lead |-> [competitor_name |-> None, related_subreddits |-> None]]

\* crud.create_lead: the Lead is stored for the descriptor
create_lead(tbl, lead_schema, saas_info_id) ==
    Append(tbl, [saas_info_id |-> saas_info_id,
                 competitor_name |-> lead_schema.competitor_name,
                 related_subreddits |-> lead_schema.related_subreddits])

Without(d, key) == [k \in DOMAIN d \ {key} |-> d[k]]

\* a candidate's handling that rejects a candidate with a key the schema
\* does not know
CreateFromItem_UnknownKeyRejected(tbl, lead_item, saas_info_id, dbOk) ==
    LET popped == Without(lead_item, "sources")
        subs == popped["related_subreddits"]
        parsed == json_loads(subs)
        lead_data == IF subs.t = "str" /\ parsed.ok
                     THEN [popped EXCEPT !["related_subreddits"] = parsed.value]
                     ELSE popped
        lead_schema == LeadCreate(lead_data)
    IN IF subs.t = "str" /\ ~parsed.ok
       THEN [tbl |-> tbl, called |-> FALSE]
       ELSE IF DOMAIN lead_item # {"competitor_name", "related_subreddits"}
       THEN [tbl |-> tbl, called |-> FALSE]
       ELSE IF ~lead_schema.ok THEN [tbl |-> tbl, called |-> FALSE]
       ELSE IF ~dbOk THEN [tbl |-> tbl, called |-> TRUE]
       ELSE [tbl |-> create_lead(tbl, lead_schema.lead, saas_info_id),
             called |-> TRUE]

\* a candidate's handling that hands related_subreddits on as delivered
CreateFromItem_NoCoercion(tbl, lead_item, saas_info_id, dbOk) ==
    LET popped == Without(lead_item, "sources")
        lead_schema == LeadCreate(popped)
    IN IF ~lead_schema.ok THEN [tbl |-> tbl, called |-> FALSE]
       ELSE IF ~dbOk THEN [tbl |-> tbl, called |-> TRUE]
       ELSE [tbl |-> create_lead(tbl, lead_schema.lead, saas_info_id),
             called |-> TRUE]

\* lines 150-173, one candidate that has the required fields: the table
\* after it, and whether create_lead was called
CreateFromItem(tbl, lead_item, saas_info_id, dbOk) ==
    LET popped == Without(lead_item, "sources")
        subs == popped["related_subreddits"]
        parsed == json_loads(subs)
        lead_data == IF subs.t = "str" /\ parsed.ok
                     THEN [popped EXCEPT !["related_subreddits"] = parsed.value]
                     ELSE popped
        lead_schema == LeadCreate(lead_data)
    IN IF subs.t = "str" /\ ~parsed.ok
       THEN [tbl |-> tbl, called |-> FALSE]
       ELSE IF ~lead_schema.ok THEN [tbl |-> tbl, called |-> FALSE]
       ELSE IF ~dbOk THEN [tbl |-> tbl, called |-> TRUE]
       ELSE [tbl |-> create_lead(tbl, lead_schema.lead, saas_info_id),
             called |-> TRUE]

\* a loop that stops at the first candidate that lacks a required field
RECURSIVE ProcessLeads_AbortOnMissing(_, _, _, _, _)
ProcessLeads_AbortOnMissing(tbl, items, saas_info_id, calls, dbFailAt) ==
    IF items = <<>> THEN tbl
    ELSE LET lead_item == Head(items)
             missing_fields == {"competitor_name", "related_subreddits"}
                                   \ DOMAIN lead_item.d
         IN IF lead_item.t # "dict"
            THEN ProcessLeads_AbortOnMissing(tbl, Tail(items), saas_info_id,
                                             calls, dbFailAt)
            ELSE IF missing_fields # {}
            THEN tbl
            ELSE LET r == CreateFromItem(tbl, lead_item.d, saas_info_id,
                                         calls + 1 # dbFailAt)
                 IN ProcessLeads_AbortOnMissing(r.tbl, Tail(items),
                        saas_info_id,
                        IF r.called THEN calls + 1 ELSE calls, dbFailAt)

\* a loop that ends when create_lead raises
RECURSIVE ProcessLeads_StopOnError(_, _, _, _, _)
ProcessLeads_StopOnError(tbl, items, saas_info_id, calls, dbFailAt) ==
    IF items = <<>> THEN tbl
    ELSE LET lead_item == Head(items)
             missing_fields == {"competitor_name", "related_subreddits"}
                                   \ DOMAIN lead_item.d
         IN IF lead_item.t # "dict"
            THEN ProcessLeads_StopOnError(tbl, Tail(items), saas_info_id,
                                          calls, dbFailAt)
            ELSE IF missing_fields # {}
            THEN ProcessLeads_StopOnError(tbl, Tail(items), saas_info_id,
                                          calls, dbFailAt)
            ELSE LET r == CreateFromItem(tbl, lead_item.d, saas_info_id,
                                         calls + 1 # dbFailAt)
                 IN IF r.called /\ calls + 1 = dbFailAt THEN r.tbl
                    ELSE ProcessLeads_StopOnError(r.tbl, Tail(items),
                             saas_info_id,
                             IF r.called THEN calls + 1 ELSE calls, dbFailAt)

\* lines 131-173: the loop over the candidates; calls counts the create_lead
\* calls made so far and the call numbered dbFailAt raises
RECURSIVE ProcessLeads(_, _, _, _, _)
ProcessLeads(tbl, items, saas_info_id, calls, dbFailAt) ==
    IF items = <<>> THEN tbl
    ELSE LET lead_item == Head(items)
             missing_fields == {"competitor_name", "related_subreddits"}
                                   \ DOMAIN lead_item.d
         IN IF lead_item.t # "dict"
            THEN ProcessLeads(tbl, Tail(items), saas_info_id, calls, dbFailAt)
            ELSE IF missing_fields # {}
            THEN ProcessLeads(tbl, Tail(items), saas_info_id, calls, dbFailAt)
            ELSE LET r == CreateFromItem(tbl, lead_item.d, saas_info_id,
                                         calls + 1 # dbFailAt)
                 IN ProcessLeads(r.tbl, Tail(items), saas_info_id,
                                 IF r.called THEN calls + 1 ELSE calls,
                                 dbFailAt)

\* crud.get_saas_info: no descriptor, a descriptor, or a descriptor whose
\* stored pricing features or target segments are not JSON text
SaasInfos == {None, "ok", "bad_json"}

\* a search in which the JSON error of the raw output leaves the function
perform_leads_search_Unguarded(tbl, saas_info_db, saas_info_id, raw_output, dbFailAt) ==
    LET decoded == DecodeRaw(raw_output)
        shape == ResolveShape(decoded.processed_result)
    IN IF saas_info_db = None
       THEN [leads |-> tbl, outcome |-> "not_found", raised |-> FALSE]
       ELSE IF saas_info_db = "bad_json"
       THEN [leads |-> tbl, outcome |-> "raise", raised |-> TRUE]
       ELSE IF raw_output = RunRaises
       THEN [leads |-> tbl, outcome |-> "error", raised |-> FALSE]
       ELSE IF decoded.ret
       THEN [leads |-> tbl, outcome |-> "raise", raised |-> TRUE]
       ELSE IF shape.ret
       THEN [leads |-> tbl, outcome |-> "bad_shape", raised |-> FALSE]
       ELSE IF shape.leads_to_process.t # "list"
       THEN [leads |-> tbl, outcome |-> "error", raised |-> FALSE]
       ELSE [leads |-> ProcessLeads(tbl, shape.leads_to_process.items,
                                    saas_info_id, 0, dbFailAt),
             outcome |-> "processed", raised |-> FALSE]

\* a search that goes on without its descriptor
perform_leads_search_NoLookup(tbl, saas_info_db, saas_info_id, raw_output, dbFailAt) ==
    LET decoded == DecodeRaw(raw_output)
        shape == ResolveShape(decoded.processed_result)
    IN IF saas_info_db = "bad_json"
       THEN [leads |-> tbl, outcome |-> "raise", raised |-> TRUE]
       ELSE IF raw_output = RunRaises
       THEN [leads |-> tbl, outcome |-> "error", raised |-> FALSE]
       ELSE IF decoded.ret
       THEN [leads |-> tbl, outcome |-> "malformed", raised |-> FALSE]
       ELSE IF shape.ret
       THEN [leads |-> tbl, outcome |-> "bad_shape", raised |-> FALSE]
       ELSE IF shape.leads_to_process.t # "list"
       THEN [leads |-> tbl, outcome |-> "error", raised |-> FALSE]
       ELSE [leads |-> ProcessLeads(tbl, shape.leads_to_process.items,
                                    saas_info_id, 0, dbFailAt),
             outcome |-> "processed", raised |-> FALSE]

\* the whole function: the leads table after it, how it ended, and whether
\* an exception left it.  The descriptor is read and its stored JSON decoded
\* before the try block; everything from search_graph.run() on is inside it
perform_leads_search(tbl, saas_info_db, saas_info_id, raw_output, dbFailAt) ==
    LET decoded == DecodeRaw(raw_output)
        shape == ResolveShape(decoded.processed_result)
    IN IF saas_info_db = None
       THEN [leads |-> tbl, outcome |-> "not_found", raised |-> FALSE]
       ELSE IF saas_info_db = "bad_json"
       THEN [leads |-> tbl, outcome |-> "raise", raised |-> TRUE]
       ELSE IF raw_output = RunRaises
       THEN [leads |-> tbl, outcome |-> "error", raised |-> FALSE]
       ELSE IF decoded.ret
       THEN [leads |-> tbl, outcome |-> "malformed", raised |-> FALSE]
       ELSE IF shape.ret
       THEN [leads |-> tbl, outcome |-> "bad_shape", raised |-> FALSE]
       ELSE IF shape.leads_to_process.t # "list"
       THEN [leads |-> tbl, outcome |-> "error", raised |-> FALSE]
       ELSE [leads |-> ProcessLeads(tbl, shape.leads_to_process.items,
                                    saas_info_id, 0, dbFailAt),
             outcome |-> "processed", raised |-> FALSE]

\* the search graph is only run for a descriptor that was read
LeadsSearch ==
    /\ search.pc = "idle"
    /\ UNCHANGED <<posts, runs, okWrites>>
    /\ \E saas_info_db \in SaasInfos, n \in 0..MaxItems :
       \E items \in [1..n -> Items] :
       \E raw_output \in RawOutputs(items), dbFailAt \in 0..MaxItems :
           /\ saas_info_db = "ok"
                 \/ (n = 0 /\ raw_output = NotJson /\ dbFailAt = 0)
           /\ LET res == perform_leads_search(leads, saas_info_db, 1,
                                              raw_output, dbFailAt)
              IN /\ leads' = res.leads
                 /\ search' = [pc |-> IF res.raised THEN "raised"
                                      ELSE "returned",
                               saas_info_db |-> saas_info_db,
                               raw |-> raw_output,
                               dbFailAt |-> dbFailAt,
                               outcome |-> res.outcome]

NextLeads == LeadsSearch

SpecLeads == Init /\ [][NextLeads]_vars

\* -------------------------------------- invocations without single-flight
\* Two workers take up post() for the same Post id, nothing outside the
\* function keeping them apart; the table holds one generated, unposted Post
InitRace ==
    /\ posts = PostableTable
    /\ runs = [r \in Workers |-> IdleRun]
    /\ okWrites = 0
    /\ leads = <<>>
    /\ search = NoSearch

Busy(r) == {w \in Workers \ {r} : runs[w].pc # "idle"}

BeginSamePost(r) ==
    /\ okWrites + Cardinality(Busy(r)) < MaxWrites
    /\ \/ BeginPost(r, 1, TEST_SUBREDDITS, TRUE, TRUE, AnAccount)
       \/ BeginPostMono(r, 1, TRUE, TRUE, AnAccount)

NextRace ==
    \/ \E r \in Workers : BeginSamePost(r)
    \/ \E r \in Workers : Step(r)
    \/ \E r \in Workers : Return(r)

SpecRace == InitRace /\ [][NextRace]_vars

\* ------------------------------------------------ rows as they are stored
\* is_posted and posted_url are two columns of the stored row, and the entry
\* of post() tests each combination of them; the table the function is
\* called on holds one row in any of these combinations, fetched only or
\* generated
StoredLink == MaxWrites + 2

StoredRows ==
    {[row EXCEPT !.is_posted = b, !.posted_url = u] :
        row \in {PostableTable[1], NewPost(1, "thread", "s2")},
        b \in BOOLEAN, u \in {NoUrl, StoredLink}}

InitStored ==
    /\ posts \in {<<row>> : row \in StoredRows}
    /\ runs = [r \in Slots |-> IdleRun]
    /\ okWrites = 0
    /\ leads = <<>>
    /\ search = NoSearch

BeginOnStored(r) ==
    \E g \in Gates, tl \in TargetLists :
        BeginPost(r, 1, tl, g.auth, g.query, g.acct)

NextStored ==
    \/ BeginOnStored(1)
    \/ Step(1)
    \/ Return(1)

SpecStored == InitStored /\ [][NextStored]_vars

\* ---------------------------------------------------- the loop, to its end
\* post() on one generated Post, for every kind of original url and every
\* target list; time.sleep and the platform calls return, so a run that is
\* under way takes its next step
InitLoop ==
    /\ posts \in {generate_reddit_posts(
                      save_reddit_posts(<<>>, 1, "s2", <<u>>), TRUE, 1,
                      [kind |-> "valid", title |-> "T1", content |-> "C1"]) :
                  u \in Urls}
    /\ runs = [r \in Slots |-> IdleRun]
    /\ okWrites = 0
    /\ leads = <<>>
    /\ search = NoSearch

BeginLoop(r) ==
    \/ \E tl \in TargetLists : BeginPost(r, 1, tl, TRUE, TRUE, AnAccount)
    \/ BeginPostMono(r, 1, TRUE, TRUE, AnAccount)

NextLoop ==
    \/ BeginLoop(1)
    \/ Step(1)
    \/ Return(1)

SpecLoop == InitLoop /\ [][NextLoop]_vars /\ WF_vars(Step(1))

\* ------------------------------------------- references that may be missing
\* Lead search, generation and post() called with references that exist and
\* references that do not, on a table that holds one fetched Post
FetchedTable == save_reddit_posts(<<>>, 1, "s2", <<"thread">>)
\* the ids a caller may pass: those of the table and one past its end
ReferencedIds == 1..(Len(FetchedTable) + 1)
\* a raw output that makes one Lead
OneLeadOutput ==
    Decoded(DictValue(MkDict(JStr("Acme"), SubsList, {}), FALSE, NoWrapper))

InitReferences ==
    /\ posts = FetchedTable
    /\ runs = [r \in Slots |-> IdleRun]
    /\ okWrites = 0
    /\ leads = <<>>
    /\ search = NoSearch

SearchReferenced ==
    /\ search.pc = "idle"
    /\ UNCHANGED <<posts, runs, okWrites>>
    /\ \E saas_info_db \in SaasInfos :
           LET res == perform_leads_search(leads, saas_info_db, 1,
                                           OneLeadOutput, 0)
           IN /\ leads' = res.leads
              /\ search' = [pc |-> IF res.raised THEN "raised"
                                   ELSE "returned",
                            saas_info_db |-> saas_info_db,
                            raw |-> OneLeadOutput, dbFailAt |-> 0,
                            outcome |-> res.outcome]

GenerateReferenced ==
    /\ \A r \in DOMAIN runs : runs[r].pc = "idle"
    /\ \E saasFound \in BOOLEAN, p \in ReferencedIds, g \in GenResponses :
           Generate(saasFound, p, g)

BeginReferenced(r) ==
    \E p \in ReferencedIds :
        \/ BeginPost(r, p, TEST_SUBREDDITS, TRUE, TRUE, AnAccount)
        \/ BeginPostMono(r, p, TRUE, TRUE, AnAccount)

NextReferences ==
    \/ SearchReferenced
    \/ GenerateReferenced
    \/ BeginReferenced(1)
    \/ Step(1)
    \/ Return(1)

SpecReferences == InitReferences /\ [][NextReferences]_vars

\* ------------------------------------------------------------------- claims
WriteOk == {"reply_ok", "submit_ok"}
WriteEvents == {"reply_ok", "reply_fail", "submit_ok", "submit_fail"}
DelayEvents == {"pre_delay", "post_delay"}

\* the run's history holds a successful write for its current target, with
\* the permalink the platform returned
WroteForTarget(run) ==
    \E j \in DOMAIN run.trace :
        /\ run.trace[j].t = run.i
        /\ run.trace[j].e \in WriteOk
        /\ run.trace[j].link # NoUrl

\* the Posts of a lead recorded as successfully posted to a community
RecordedPosted(lead, community) ==
    {p \in DOMAIN posts : /\ posts[p].lead_id = lead
                          /\ posts[p].is_posted
                          /\ community \in posts[p].posted_subs}

\* C1: over post() invocations run one at a time, for every (lead, community)
\* pair at most one successful platform write is performed and recorded, also
\* when two Posts of the lead have different generated titles
C1_AtMostOncePerKey ==
    \A k \in Leads \X Communities :
        Cardinality(RecordedPosted(k[1], k[2])) <= 1

\* C2: in every reachable state posted_url is set if and only if is_posted
C2_PostedUrlIffPosted ==
    \A p \in DOMAIN posts : (posts[p].posted_url # NoUrl) <=> posts[p].is_posted

Enters(r) == runs[r].pc = "idle" /\ runs'[r].pc # "idle"

\* the run's history has no entry for any target: no guard check, no pacing
\* delay, no platform call, no recording
NoTargetActivity(run) == \A j \in DOMAIN run.trace : run.trace[j].t = 0

\* the entering invocation ends at once and nothing persisted or on the
\* platform changes
AbortsUntouched(r) ==
    /\ runs'[r].pc = "done"
    /\ NoTargetActivity(runs'[r])
    /\ posts' = posts
    /\ okWrites' = okWrites

\* C4: once a Post has is_posted = true, a later post() invocation on it makes
\* no platform write and leaves every field of every Post unchanged
C4_NoRewriteOncePosted ==
    [][\A r \in Slots :
          (/\ Enters(r)
           /\ runs'[r].post_id \in DOMAIN posts
           /\ posts[runs'[r].post_id].is_posted)
          => AbortsUntouched(r)]_vars

C4_Witness ==
    \E r \in Slots :
        /\ runs[r].pc = "done"
        /\ runs[r].trace = <<Ev("already_posted", 0)>>
        /\ posts[runs[r].post_id].is_posted

\* a precondition of post(post_id) is unmet for the row as persisted
PreconditionUnmet(post_id) ==
    \/ post_id \notin DOMAIN posts
    \/ posts[post_id].generated_title \in {None, ""}
    \/ posts[post_id].generated_content \in {None, ""}
    \/ ~posts[post_id].ai_generated
    \/ posts[post_id].is_posted

\* C5: an unmet precondition (missing Post, generated title or content absent
\* or empty, ai_generated false, is_posted true) aborts the invocation with no
\* platform write, no pacing delay and no Post changed
C5_PreconditionAbort ==
    [][\A r \in Slots :
          (Enters(r) /\ PreconditionUnmet(runs'[r].post_id))
          => AbortsUntouched(r)]_vars

C5_Witness ==
    \E r \in Slots :
        /\ runs[r].pc = "done"
        /\ runs[r].reddit /\ runs[r].healthy
        /\ runs[r].post_id \in DOMAIN posts
        /\ posts[runs[r].post_id].generated_title = "T1"
        /\ posts[runs[r].post_id].generated_content = ""
        /\ posts[runs[r].post_id].ai_generated
        /\ ~posts[runs[r].post_id].is_posted
        /\ runs[r].trace = <<Ev("no_content", 0)>>

\* C6: every Post with is_posted = true has non-empty generated_content, and
\* no platform write is attempted with empty or absent generated_content
C6_PostedHasContent ==
    /\ \A p \in DOMAIN posts :
           posts[p].is_posted => posts[p].generated_content \notin {None, ""}
    /\ \A r \in Slots :
           runs[r].pc \in {"reply", "submit"}
           => runs[r].db_post.generated_content \notin {None, ""}

\* C7: when the session cannot be established or the health gate reports the
\* account unreachable, post() ends before any target is processed: no guard
\* check, no delay, no write, no Post changed
C7_GateAbort ==
    [][\A r \in Slots :
          (Enters(r) /\ (~runs'[r].reddit \/ ~runs'[r].healthy))
          => AbortsUntouched(r)]_vars

C7_Witness ==
    \E r \in Slots :
        /\ runs[r].pc = "done"
        /\ runs[r].reddit /\ ~runs[r].healthy
        /\ runs[r].post_id \in DOMAIN posts
        /\ posts[runs[r].post_id].ai_generated
        /\ posts[runs[r].post_id].generated_content = "C1"
        /\ ~posts[runs[r].post_id].is_posted

ReplyEvents == {"reply_ok", "reply_fail", "resolve_fail"}
SubmitEvents == {"submit_ok", "submit_fail"}

\* the url of the run's Post as persisted
RowUrl(run) == posts[run.post_id].url

\* C8: for a Post whose url holds the reply marker the reply (or the
\* resolution of its parent) comes first in a target and a submission only
\* right after its failure; for any other url the submission comes directly
\* after the delay and no reply is ever attempted
C8_WritePath ==
    \A r \in Slots :
        LET tr == runs[r].trace IN
        \A j \in DOMAIN tr :
            /\ tr[j].e \in ReplyEvents
               => /\ RowUrl(runs[r]) \in {"thread", "word"}
                  /\ j > 1 /\ tr[j-1].e = "pre_delay" /\ tr[j-1].t = tr[j].t
            /\ tr[j].e = "resolve_fail" => RowUrl(runs[r]) = "word"
            /\ tr[j].e \in {"reply_ok", "reply_fail"}
               => RowUrl(runs[r]) = "thread"
            /\ (tr[j].e \in SubmitEvents /\ RowUrl(runs[r]) \in {"thread", "word"})
               => /\ j > 1 /\ tr[j-1].e \in {"reply_fail", "resolve_fail"}
                  /\ tr[j-1].t = tr[j].t
            /\ (tr[j].e \in SubmitEvents /\ RowUrl(runs[r]) = "plain")
               => j > 1 /\ tr[j-1].e = "pre_delay" /\ tr[j-1].t = tr[j].t

C8_Witness ==
    \E r \in Slots :
        LET tr == runs[r].trace IN
        /\ runs[r].post_id \in DOMAIN posts
        /\ RowUrl(runs[r]) = "thread"
        /\ \E j \in DOMAIN tr :
               /\ j > 2
               /\ tr[j].e = "submit_ok"
               /\ tr[j-1].e = "reply_fail"
               /\ tr[j-2].e = "pre_delay"

\* the permalink of the write that succeeded for the run's current target:
\* the reply's when the reply succeeded, else the submission's
SucceededLink(run) ==
    LET tr == run.trace
        ok(e) == {j \in DOMAIN tr : tr[j].t = run.i /\ tr[j].e = e}
    IN IF ok("reply_ok") # {} THEN tr[CHOOSE j \in ok("reply_ok") : TRUE].link
       ELSE IF ok("submit_ok") # {}
       THEN tr[CHOOSE j \in ok("submit_ok") : TRUE].link
       ELSE NoUrl

\* a step in which slot r records a successful target
RecordsSuccess(r) ==
    /\ runs[r].pc = "persist"
    /\ Len(runs'[r].trace) > Len(runs[r].trace)
    /\ runs'[r].trace[Len(runs[r].trace) + 1].e = "persist_ok"

\* C9: after a successful target the Post is persisted with is_posted = true
\* and posted_url equal to the permalink of the write that succeeded
C9_RecordedPermalink ==
    [][\A r \in Slots :
          RecordsSuccess(r)
          => /\ posts'[runs[r].post_id].is_posted
             /\ posts'[runs[r].post_id].posted_url # NoUrl
             /\ posts'[runs[r].post_id].posted_url = SucceededLink(runs[r])]_vars

Appended(r) ==
    {runs'[r].trace[j].e :
        j \in (Len(runs[r].trace) + 1)..Len(runs'[r].trace)}

\* a step in which the write for the current target fails for good: the
\* submission raises, or the reply raises and no submission follows
WriteFailed(r) ==
    /\ runs[r].pc \in {"reply", "submit"}
    /\ "failed" \in Appended(r)

\* the invocation goes on with the next target of its list, or ends normally
\* after the last one
GoesOn(r) ==
    IF runs[r].i < Len(runs[r].targets)
    THEN /\ runs'[r].pc = "guard"
         /\ runs'[r].i = runs[r].i + 1
         /\ runs'[r].targets = runs[r].targets
    ELSE /\ runs'[r].pc = "done"
         /\ ~runs'[r].raised
         /\ "close" \in Appended(r)

\* an invocation that ended normally has an entry for each of its targets
VisitedAll(run) ==
    (run.pc = "done" /\ ~run.raised)
    => \A t \in DOMAIN run.targets : \E j \in DOMAIN run.trace : run.trace[j].t = t

\* C11: a failed write for one target changes no Post and does not stop the
\* run: the next target of the list is taken up, and an invocation that ends
\* has gone through every target
C11_FailedWriteContinues ==
    /\ [][\A r \in Slots : WriteFailed(r) => (posts' = posts /\ GoesOn(r))]_vars
    /\ [](\A r \in Slots : VisitedAll(runs[r]))

C11_Witness ==
    \E r \in Slots :
        LET tr == runs[r].trace IN
        /\ Len(runs[r].targets) = 2
        /\ \E j \in DOMAIN tr, k \in DOMAIN tr :
               /\ j < k
               /\ tr[j].e = "failed" /\ tr[j].t = 1
               /\ tr[k].e = "submit_ok" /\ tr[k].t = 2


\* the invocation made a successful platform write for some target
SomeWriteOk(run) == \E j \in DOMAIN run.trace : run.trace[j].e \in WriteOk

\* C12: the value post() returns is true if and only if at least one target's
\* write succeeded in the invocation
C12_AggregateResult ==
    \A r \in Slots :
        (runs[r].pc = "done" /\ ~runs[r].raised)
        => ((ReturnValue(runs[r]) = "True") <=> SomeWriteOk(runs[r]))


\* the invocation passed the entry checks and took up a target
EnteredLoop(run) == \E j \in DOMAIN run.trace : run.trace[j].t > 0

\* the invocation recorded a successful target
Recorded(run) == \E j \in DOMAIN run.trace : run.trace[j].e = "persist_ok"

\* C13: an invocation in which no target succeeds leaves its Post as it found
\* it, with is_posted false and posted_url unset, so that the preconditions
\* of post() still hold for a later invocation
C13_FailureLeavesRetriable ==
    \A r \in Slots :
        (runs[r].pc = "done" /\ EnteredLoop(runs[r]) /\ ~Recorded(runs[r]))
        => /\ posts[runs[r].post_id] = runs[r].db_post
           /\ ~posts[runs[r].post_id].is_posted
           /\ posts[runs[r].post_id].posted_url = NoUrl
           /\ ~PreconditionUnmet(runs[r].post_id)

C13_Witness ==
    \E r \in Slots :
        /\ runs[r].pc = "done"
        /\ ~Recorded(runs[r])
        /\ \E j \in DOMAIN runs[r].trace : runs[r].trace[j].e = "submit_fail"
        /\ ~PreconditionUnmet(runs[r].post_id)


\* what the duplicate guards read: per Post its lead, community, generated
\* title, is_posted and the communities recorded for it
PostingHistory ==
    [p \in DOMAIN posts |->
        <<posts[p].lead_id, posts[p].subreddit, posts[p].generated_title,
          posts[p].is_posted, posts[p].posted_subs>>]

\* the guard has passed for the run's current target and no platform write
\* has been attempted for it yet
AwaitingFirstWrite(run) ==
    /\ run.pc \in {"pre_delay", "reply", "submit"}
    /\ \A j \in DOMAIN run.trace :
           run.trace[j].t = run.i => run.trace[j].e # "reply_fail"

\* every entry of a target follows the target's passed guard, and a target
\* whose guard answered 'already posted' has no other entry
GuardFirst(run) ==
    \A j \in DOMAIN run.trace :
        LET ev == run.trace[j] IN
        /\ (ev.t > 0 /\ ev.e \notin {"guard_pass", "guard_skip", "guard_err"})
           => \E k \in 1..(j - 1) :
                  run.trace[k].t = ev.t /\ run.trace[k].e = "guard_pass"
        /\ ev.e = "guard_skip"
           => \A k \in DOMAIN run.trace : (k # j => run.trace[k].t # ev.t)

\* C14: for every target the guard is evaluated before the first platform
\* write, the persisted posting history cannot change between that check and
\* the write, and a target the guard reports as already posted gets no
\* pacing delay and no write
C14_GuardImmediatelyBeforeWrite ==
    /\ [](\A r \in DOMAIN runs : GuardFirst(runs[r]))
    /\ [][\A r \in DOMAIN runs :
             (AwaitingFirstWrite(runs[r]) /\ AwaitingFirstWrite(runs'[r]))
             => PostingHistory' = PostingHistory]_vars


\* the pre-action delay of the run's current target has completed
DelayedForTarget(run) ==
    \E k \in DOMAIN run.trace :
        run.trace[k].e = "pre_delay" /\ run.trace[k].t = run.i

\* C15: every platform write attempt (reply, direct submission, fallback
\* submission) comes after a completed pre-action delay of the same target,
\* and the platform receives no write from a run that has not completed it
C15_DelayBeforeWrite ==
    /\ [](\A r \in Slots :
             LET tr == runs[r].trace IN
             /\ \A j \in DOMAIN tr :
                    tr[j].e \in WriteEvents
                    => \E k \in 1..(j - 1) :
                           tr[k].e = "pre_delay" /\ tr[k].t = tr[j].t
             /\ runs[r].pc \in {"reply", "submit"} => DelayedForTarget(runs[r]))
    /\ [][okWrites' # okWrites
          => \E r \in Slots : /\ runs[r].pc \in {"reply", "submit"}
                              /\ DelayedForTarget(runs[r])
                              /\ Appended(r) \cap WriteOk # {}]_vars

C15_Witness ==
    \E r \in Slots :
        LET tr == runs[r].trace IN
        /\ runs[r].impl = "reddit_service"
        /\ \E j \in DOMAIN tr :
               /\ j > 1
               /\ tr[j].e = "reply_ok"
               /\ tr[j-1].e = "pre_delay" /\ tr[j-1].t = tr[j].t


ErrorInTarget(r) == Appended(r) \cap {"guard_err", "failed"} # {}

\* C17: an error raised while one target is processed (guard query, write,
\* recording) is contained to that target: the run goes on with the next
\* target or ends normally, and no invocation ends by an exception
C17_ErrorsContained ==
    /\ [][\A r \in Slots : ErrorInTarget(r) => GoesOn(r)]_vars
    /\ [](\A r \in Slots : ~runs[r].raised)


\* C18: risk signals are advisory: whatever karma, age and verified flag the
\* account query reports, the gate answers reachable and post() goes on to
\* its targets; the gate answers not reachable only when the query fails
C18_RiskAdvisory ==
    \A r \in DOMAIN runs :
        runs[r].pc # "idle"
        => /\ runs[r].healthy <=> runs[r].user.queryOk
           /\ runs[r].user.queryOk
              => /\ \A j \in DOMAIN runs[r].trace :
                        runs[r].trace[j].e # "health_fail"
                 /\ runs[r].pc = "done" => EnteredLoop(runs[r])

C18_Witness ==
    \E r \in DOMAIN runs :
        /\ runs[r].pc # "idle"
        /\ RiskSignals(runs[r].user.karma, runs[r].user.age_days,
                       runs[r].user.verified)
           = {"low_karma", "new_account", "unverified_email"}
        /\ \E j \in DOMAIN runs[r].trace : runs[r].trace[j].e = "submit_ok"


\* a step in which slot r is interrupted
Cancelled(r) == "cancelled" \in Appended(r)

\* is_posted and posted_url of a Post agree
UrlMatchesFlag(row) == row.is_posted <=> (row.posted_url # NoUrl)

C20_IsPostedMonotonic ==
    [][\A p \in DOMAIN posts :
          posts[p].is_posted => (p \in DOMAIN posts' /\ posts'[p].is_posted)]_vars

C20_Witness ==
    \E p \in DOMAIN posts :
        /\ posts[p].is_posted
        /\ posts[p].generated_title = "T2"
        /\ posts[p].generated_content = "C1"
        /\ posts[p].posted_url # NoUrl
        /\ \E q \in DOMAIN posts : q > p /\ posts[q].url = posts[p].url

\* ------------------------------------------------- claims: the lead search
RequiredFields == {"competitor_name", "related_subreddits"}

\* the search returned and the descriptor was found
Searched == search.pc # "idle" /\ search.saas_info_db = "ok"

\* the Leads a search on the empty table creates from a raw output
LeadsFrom(raw_output, dbFailAt) ==
    perform_leads_search(<<>>, "ok", 1, raw_output, dbFailAt).leads

\* an object with all required fields
Qualifies(item) == item.t = "dict" /\ RequiredFields \subseteq DOMAIN item.d

\* a qualifying object whose values the Lead schema accepts:
\* competitor_name a string, related_subreddits a list or the JSON text of
\* a list
WellFormed(item) ==
    /\ Qualifies(item)
    /\ item.d["competitor_name"].t = "str"
    /\ \/ item.d["related_subreddits"].t = "list"
       \/ /\ item.d["related_subreddits"].t = "str"
          /\ item.d["related_subreddits"].enc = "list"

\* the Lead a well-formed candidate stands for
RecordOf(item) ==
    [saas_info_id |-> 1,
     competitor_name |-> item.d["competitor_name"].v,
     related_subreddits |-> item.d["related_subreddits"].v]

\* the Leads of the well-formed candidates of a list, in input order
ExpectedLeads(items) ==
    LET good == SelectSeq(items, WellFormed)
    IN [j \in DOMAIN good |-> RecordOf(good[j])]

\* C21: shape equivalence: for every list L handed over as a bare array,
\* the wrapper object {leads: L} creates exactly the Leads the array
\* creates, and when L is one qualifying object, so does that object alone
C21_ShapeEquivalence ==
    (Searched /\ ~search.raw.str /\ search.raw.value.t = "list")
    => LET L == search.raw.value.items
       IN /\ LeadsFrom(Decoded(Wrapper(L)), search.dbFailAt) = leads
          /\ (Len(L) = 1 /\ Qualifies(L[1]))
             => LeadsFrom(Decoded(DictValue(L[1].d, FALSE, NoWrapper)),
                          search.dbFailAt) = leads

\* C22: in an array, a non-object element is rejected on its own: the Leads
\* created are those of the well-formed objects of the array, in order,
\* wherever the non-object element stands
C22_NonObjectRejectedAlone ==
    (/\ Searched /\ search.raw.value.t = "list" /\ search.raw.parses
     /\ search.dbFailAt = 0
     /\ \E j \in DOMAIN search.raw.value.items :
            search.raw.value.items[j].t # "dict")
    => leads = ExpectedLeads(search.raw.value.items)

\* the decoded value the search worked on
Processed == search.raw.value

\* C23: shape resolution tries the wrapper, then the single record, then the
\* array: an object with the wrapper key is resolved through the wrapper's
\* value even when it carries all required fields itself; an object with
\* neither, and a value that is neither object nor array, creates no Lead;
\* in every case the search returns and does not raise
C23_ResolutionPriority ==
    (Searched /\ search.raw.parses)
    => /\ search.pc = "returned"
       /\ (Processed.t = "dict" /\ Processed.wrapped /\ search.dbFailAt = 0)
          => leads = ExpectedLeads(Processed.w.items)
       /\ (/\ Processed.t = "dict" /\ ~Processed.wrapped
           /\ ~(RequiredFields \subseteq DOMAIN Processed.d))
          => leads = <<>>
       /\ Processed.t \notin {"dict", "list"} => leads = <<>>

\* an object with the wrapper key and all required fields of its own, whose
\* wrapper holds another candidate: the Lead created is the wrapper's
C23_Witness ==
    /\ Searched /\ search.raw.parses /\ search.dbFailAt = 0
    /\ Processed.t = "dict" /\ Processed.wrapped
    /\ RequiredFields \subseteq DOMAIN Processed.d
    /\ Len(leads) = 1
    /\ leads[1].competitor_name = "Acme"
    /\ Processed.d["competitor_name"].v = "Beta"

\* the list of candidates the search worked on, whatever its shape
Batch ==
    IF Processed.t = "list" THEN Processed.items
    ELSE IF Processed.wrapped THEN Processed.w.items
    ELSE <<DictItem(Processed.d)>>

BatchOfObjects ==
    /\ Searched /\ search.raw.parses
    /\ Processed.t \in {"dict", "list"}
    /\ \A j \in DOMAIN Batch : Batch[j].t = "dict"

\* C24: in a batch of candidates, a candidate that lacks competitor_name or
\* related_subreddits creates no Lead, and the Leads created are exactly
\* those of the other, well-formed candidates, in input order
C24_MissingFieldSkipsOnlyThatOne ==
    (/\ BatchOfObjects /\ search.dbFailAt = 0
     /\ \E j \in DOMAIN Batch : ~Qualifies(Batch[j]))
    => leads = ExpectedLeads(Batch)

\* a candidate without a required field between two complete ones: both
\* Leads are created, in the order of the input
C24_Witness ==
    /\ BatchOfObjects /\ search.dbFailAt = 0
    /\ Len(Batch) = 3
    /\ ~Qualifies(Batch[2])
    /\ Len(leads) = 2
    /\ leads[1].competitor_name = "Beta"
    /\ leads[2].competitor_name = "Acme"

\* related_subreddits of a candidate was delivered as a string
SubsAsString(item) ==
    Qualifies(item) /\ item.d["related_subreddits"].t = "str"

\* C25: related_subreddits delivered as a string is decoded as JSON text and
\* the Lead carries the decoded list; a string that does not decode costs
\* exactly its own candidate: the Leads created are those of all the other
\* well-formed candidates of the batch
C25_StringFieldDecoded ==
    (/\ BatchOfObjects /\ search.dbFailAt = 0
     /\ \E j \in DOMAIN Batch : SubsAsString(Batch[j]))
    => /\ leads = ExpectedLeads(Batch)
       /\ \A j \in DOMAIN Batch :
             (SubsAsString(Batch[j]) /\ Batch[j].d["competitor_name"].t = "str")
             => ((\E k \in DOMAIN leads : leads[k] = RecordOf(Batch[j]))
                 <=> json_loads(Batch[j].d["related_subreddits"]).ok)

\* a string that is not JSON text, then a complete candidate, then a string
\* that is the JSON text of a list: the last two create their Leads
C25_Witness ==
    /\ BatchOfObjects /\ search.dbFailAt = 0
    /\ Len(Batch) = 3
    /\ SubsAsString(Batch[1]) /\ Batch[1].d["related_subreddits"].enc = "bad"
    /\ SubsAsString(Batch[3]) /\ Batch[3].d["related_subreddits"].enc = "list"
    /\ Len(leads) = 2
    /\ leads[1].competitor_name = "Beta"
    /\ leads[2] = RecordOf(Batch[3])

\* C26: a raw output that is a string and not JSON text creates no Lead and
\* the search returns normally
C26_UndecodableCreatesNothing ==
    (Searched /\ search.raw.str /\ ~search.raw.parses)
    => (leads = <<>> /\ search.pc = "returned")

C26_Witness ==
    /\ Searched /\ search.raw = NotJson
    /\ search.pc = "returned" /\ search.outcome = "malformed"
    /\ leads = <<>>

\* a sequence without its k-th element
RemoveAt(seq, k) ==
    [j \in 1..(Len(seq) - 1) |-> IF j < k THEN seq[j] ELSE seq[j + 1]]

\* the candidate whose creation fails: the schema rejects its values, or
\* create_lead raises for it
SchemaRejects(item) == Qualifies(item) /\ ~WellFormed(item)
CreateRaises == search.dbFailAt \in 1..Len(ExpectedLeads(Batch))

\* C27: Leads are persisted one by one: when the validation or the creation
\* of one candidate fails, the Leads of the candidates before it stay in the
\* table and the candidates after it are still created; only the failed
\* candidate's Lead is missing
C27_IndependentPersistence ==
    (/\ BatchOfObjects
     /\ CreateRaises \/ \E j \in DOMAIN Batch : SchemaRejects(Batch[j]))
    => leads = IF CreateRaises
               THEN RemoveAt(ExpectedLeads(Batch), search.dbFailAt)
               ELSE ExpectedLeads(Batch)

\* three complete candidates, create_lead raising for the second: the first
\* and the third are in the table
C27_Witness ==
    /\ BatchOfObjects /\ search.dbFailAt = 2
    /\ Len(Batch) = 3 /\ \A j \in 1..3 : WellFormed(Batch[j])
    /\ leads = <<RecordOf(Batch[1]), RecordOf(Batch[3])>>
    /\ RecordOf(Batch[1]) # RecordOf(Batch[3])

\* keys of a candidate that the Lead schema does not have
UnknownKeys(item) == DOMAIN item.d \ RequiredFields

\* the candidate without them, and the raw output with every candidate of
\* its batch so reduced
Stripped(item) ==
    [item EXCEPT !.d = [k \in DOMAIN item.d \cap RequiredFields |-> item.d[k]]]
StrippedItems(items) == [j \in DOMAIN items |-> Stripped(items[j])]
StrippedRaw ==
    [search.raw EXCEPT !.value =
        IF Processed.t = "list"
        THEN ListValue(StrippedItems(Processed.items))
        ELSE IF Processed.wrapped
        THEN DictValue(Processed.d, TRUE,
                       [t |-> "list",
                        items |-> StrippedItems(Processed.w.items)])
        ELSE DictValue(Stripped(DictItem(Processed.d)).d, FALSE, NoWrapper)]

\* C28: keys outside the Lead schema (sources, or any other) are dropped and
\* never cost the candidate: a batch with such keys creates the Leads the
\* same batch creates without them, one for every well-formed candidate
C28_UnknownFieldsDropped ==
    (/\ BatchOfObjects
     /\ Processed.t = "dict" => (Processed.wrapped => Processed.w.t = "list")
     /\ \E j \in DOMAIN Batch : Qualifies(Batch[j]) /\ UnknownKeys(Batch[j]) # {})
    => /\ leads = LeadsFrom(StrippedRaw, search.dbFailAt)
       /\ search.dbFailAt = 0 => Len(leads) = Len(SelectSeq(Batch, WellFormed))

\* a candidate with sources and a candidate with another unknown key: both
\* Leads are created
C28_Witness ==
    /\ BatchOfObjects /\ search.dbFailAt = 0
    /\ \E i, j \in DOMAIN Batch :
          /\ WellFormed(Batch[i]) /\ UnknownKeys(Batch[i]) = {"sources"}
          /\ WellFormed(Batch[j]) /\ UnknownKeys(Batch[j]) = {"note"}
    /\ Len(leads) = Len(Batch)

GeneratedFields(row) ==
    <<row.generated_title, row.generated_content, row.ai_generated>>

\* C30: a generation whose response is empty, raises or does not validate,
\* a response with empty content included, never updates the Post: whenever
\* the generated fields of a Post change, the new title and content are
\* those of a valid response and are not empty
C30_FailedGenerationKeepsPost ==
    [][\A p \in DOMAIN posts :
          GeneratedFields(posts'[p]) # GeneratedFields(posts[p])
          => /\ posts'[p].generated_content \notin {None, ""}
             /\ posts'[p].generated_title \notin {None, ""}
             /\ posts'[p].ai_generated]_vars

\* ------------------------------------------- claims: missing references
\* a lead search for a descriptor that does not exist has just returned
SearchedMissing == search' # search /\ search'.saas_info_db = None

\* post() has just been entered with the id of no Post
EnteredMissing(r) ==
    /\ runs[r].pc = "idle" /\ runs'[r].pc # "idle"
    /\ runs'[r].post_id \notin DOMAIN posts

NothingMutated ==
    /\ leads' = leads /\ posts' = posts /\ okWrites' = okWrites

\* C31: with a descriptor or a Post id that does not exist, lead search,
\* generation and post() end at once and change nothing: no Lead is created,
\* no Post is updated, no platform write is made, and post() is at its end
\* without a second attempt
C31_NotFoundAborts ==
    /\ [][/\ SearchedMissing => (NothingMutated /\ search'.pc = "returned")
          /\ \A r \in Slots :
                EnteredMissing(r)
                => /\ NothingMutated
                   /\ runs'[r].pc = "done"
                   /\ runs'[r].trace = <<Ev("not_found", 0)>>]_vars
    /\ [](\A g \in GenResponses, p \in ReferencedIds :
             /\ generate_reddit_posts(posts, FALSE, p, g) = posts
             /\ p \notin DOMAIN posts
                => generate_reddit_posts(posts, TRUE, p, g) = posts)

\* a search for a missing descriptor has returned without a Lead and post()
\* has ended on a missing Post id, on a table whose Post was generated
C31_Witness ==
    /\ search.pc = "returned" /\ search.saas_info_db = None /\ leads = <<>>
    /\ runs[1].pc = "done" /\ runs[1].post_id \notin DOMAIN posts
    /\ runs[1].trace = <<Ev("not_found", 0)>>
    /\ posts[1].ai_generated /\ ~posts[1].is_posted
    /\ okWrites = 0

\* ------------------------------------------------------- claims: the table
\* C32: fetched Posts are deduplicated by url within a lead: no two
\* persisted Posts of one lead have the same url
C32_UrlUniquePerLead ==
    \A p, q \in DOMAIN posts :
        (posts[p].lead_id = posts[q].lead_id /\ posts[p].url = posts[q].url)
        => p = q

\* ------------------------------------------------ claims: write and record
\* the invocation made a successful platform write
Wrote(run) == \E j \in DOMAIN run.trace : run.trace[j].e \in WriteOk

\* C33: at the end of every post() invocation in which a platform write
\* succeeded, the Post is persisted with is_posted = true: no state has a
\* successful write, no record of it, and a Post still open for posting
C33_WriteIsRecorded ==
    \A r \in Slots :
        (runs[r].pc = "done" /\ Wrote(runs[r]))
        => posts[runs[r].post_id].is_posted

\* the run passed the duplicate guard for its current target
PassedGuard(run) ==
    \E j \in DOMAIN run.trace :
        run.trace[j].e = "guard_pass" /\ run.trace[j].t = run.i

\* the run made a successful write for its current target
WroteTarget(run) ==
    \E j \in DOMAIN run.trace :
        run.trace[j].e \in WriteOk /\ run.trace[j].t = run.i

\* C34: the guard's check-then-act is not atomic: a run that has passed the
\* entry checks and the guard goes on to its write without reading the
\* table again, so its successful write stays possible whatever another run
\* for the same Post id has written or recorded in the meantime
C34_CheckThenActNotAtomic ==
    \A r \in Workers :
        /\ (runs[r].pc = "reply" /\ ParentResolvable(runs[r].db_post.url))
           => (PassedGuard(runs[r]) /\ ENABLED Reply(r, TRUE))
        /\ runs[r].pc = "submit"
           => (PassedGuard(runs[r]) /\ ENABLED Submit(r, TRUE))

\* both runs for the same Post id passed the is_posted test and the guard
\* and both made a successful write for the same target
C34_Witness ==
    /\ runs[1].pc # "idle" /\ runs[2].pc # "idle"
    /\ runs[1].post_id = runs[2].post_id
    /\ runs[1].impl = "posting_service" /\ runs[2].impl = "posting_service"
    /\ ~runs[1].db_post.is_posted /\ ~runs[2].db_post.is_posted
    /\ PassedGuard(runs[1]) /\ PassedGuard(runs[2])
    /\ WroteTarget(runs[1]) /\ WroteTarget(runs[2])
    /\ Target(runs[1]) = Target(runs[2])
    /\ okWrites = 2

\* ------------------------------------------------------ claims: the repair
\* slot r enters posting_service's post() on a Post that passes the entry
\* checks, is not recorded as posted and already has a posted_url
EntersRepairable(r) ==
    /\ runs[r].pc = "idle" /\ runs'[r].pc # "idle"
    /\ runs'[r].impl = "posting_service"
    /\ runs'[r].reddit /\ runs'[r].healthy
    /\ runs'[r].post_id \in DOMAIN posts
    /\ Truthy(posts[runs'[r].post_id].generated_title)
    /\ Truthy(posts[runs'[r].post_id].generated_content)
    /\ posts[runs'[r].post_id].ai_generated
    /\ ~posts[runs'[r].post_id].is_posted
    /\ posts[runs'[r].post_id].posted_url # NoUrl

\* C35: the repair path: a Post that passes the generated-content and
\* ai_generated checks, is not recorded as posted and already has a
\* posted_url is recorded as posted with its posted_url unchanged, and the
\* invocation ends at once, with no pacing delay and no platform write (the
\* row stays as it was only when the update itself raises)
C35_RepairPath ==
    [][\A r \in Slots :
          EntersRepairable(r) =>
              LET p == runs'[r].post_id IN
              /\ runs'[r].pc = "done"
              /\ okWrites' = okWrites
              /\ Len(runs'[r].trace) = 1
              /\ runs'[r].trace[1].e \in {"repaired", "repair_err"}
              /\ runs'[r].raised <=> runs'[r].trace[1].e = "repair_err"
              /\ posts'[p].posted_url = posts[p].posted_url
              /\ IF runs'[r].raised THEN posts' = posts
                 ELSE /\ posts'[p].is_posted
                      /\ [posts'[p] EXCEPT !.is_posted = FALSE,
                                           !.posted_subs = {}]
                         = [posts[p] EXCEPT !.posted_subs = {}]]_vars

\* the repair was made: the run ended on it and the row is recorded
C35_Witness ==
    /\ runs[1].pc = "done"
    /\ runs[1].trace = <<Ev("repaired", 0)>>
    /\ posts[runs[1].post_id].is_posted
    /\ posts[runs[1].post_id].posted_url = StoredLink
    /\ okWrites = 0

\* -------------------------------------------------- claims: the ai flag
\* row p is flagged ai_generated after the step and was not before it
BecomesAiGenerated(p) ==
    /\ posts'[p].ai_generated
    /\ p \in DOMAIN posts => ~posts[p].ai_generated

GuardEvents == {"guard_pass", "guard_skip", "guard_err"}
ReplyAttempts == {"reply_ok", "reply_fail", "resolve_fail"}
SubmitAttempts == {"submit_ok", "submit_fail"}

\* the entries of the run's history for target t with an event of E
Entries(run, E, t) ==
    {j \in DOMAIN run.trace : run.trace[j].e \in E /\ run.trace[j].t = t}

\* the targets come in the order of the list: no entry for an earlier target
\* follows an entry for a later one
InListOrder(run) ==
    \A j, k \in DOMAIN run.trace :
        (j < k /\ run.trace[j].t > 0 /\ run.trace[k].t > 0)
        => run.trace[j].t <= run.trace[k].t

\* C37: no retry loop: within one invocation each target is visited at most
\* once, in the order of the list, with at most one reply attempt and at
\* most one submission attempt, and the invocation ends after the last
\* target whatever the outcomes of its writes, as long as each delay and
\* each platform call returns
C37_NoRetryAndTerminates ==
    /\ [](\A r \in Slots :
            /\ runs[r].i <= Len(runs[r].targets)
            /\ InListOrder(runs[r])
            /\ \A t \in DOMAIN runs[r].targets :
                  /\ Cardinality(Entries(runs[r], GuardEvents, t)) <= 1
                  /\ Cardinality(Entries(runs[r], ReplyAttempts, t)) <= 1
                  /\ Cardinality(Entries(runs[r], SubmitAttempts, t)) <= 1)
    /\ \A r \in Slots : (runs[r].pc # "idle") ~> (runs[r].pc = "done")

\* an invocation over two targets ended after the second one, its reply and
\* its fallback submission for the first having both failed
C37_Witness ==
    /\ runs[1].pc = "done"
    /\ Len(runs[1].targets) = 2
    /\ Entries(runs[1], {"reply_fail"}, 1) # {}
    /\ Entries(runs[1], {"submit_fail"}, 1) # {}
    /\ Entries(runs[1], GuardEvents, 2) # {}
    /\ runs[1].trace[Len(runs[1].trace)].e = "close"

====
